---------------------------- MODULE Spec2Model ----------------------------
(***************************************************************************)
(* Model of the two network-propagation engines of HAB_proyecto:           *)
(*   - ejecutar_diamond (src/scripts/diamond.py)                           *)
(*   - ejecutar_guild   (src/scripts/analisis_funcional.py)                *)
(*                                                                         *)
(* A gene identifier is a Python str, modelled as the sequence of its      *)
(* characters; a character is a natural number, 0 standing for ".".       *)
(* A graph is the set of its nodes and the set of its edges, an edge being *)
(* the set of its one (self-loop) or two endpoints.  nx.read_edgelist only *)
(* creates nodes through edges, so every node is an endpoint of an edge.   *)
(*                                                                         *)
(* Floating point: a hypergeometric p-value is kept as an exact fraction;  *)
(* where the exact value is exactly 0.05 the outcome of the floating-point *)
(* comparison "pval > 0.05" is left open (both outcomes are modelled).     *)
(* RWR scores are exact fractions over a common denominator.               *)
(***************************************************************************)
EXTENDS Integers, Sequences, FiniteSets, TLC

VARIABLES
    nodes,            \* G.nodes()
    edges,            \* G.edges(), each the set of its endpoints
    leidas,           \* set(leer_genes(ruta_semillas)): the seeds as read
    semillas,         \* the reconciled seed set, then the growing module
    semillas_limpias, \* {limpiar_id(g) for g in semillas}
    nodos_limpios,    \* {limpiar_id(n) for n in G.nodes()}
    renorm,           \* result of reconciling the reconciled seed set again
    K,                \* len(semillas) right after reconciliation
    candidatos,       \* the candidate frontier
    results,          \* the added nodes, in order, with p-value and k_s
    motivo_parada,    \* the stop reason
    i,                \* number of loop iterations started and completed
    df_final,         \* the result table written by ejecutar_diamond
    motor,            \* which engine is running
    pc,               \* position in the engine's code
    archivos,         \* the result files written so far
    p,                \* RWR: the score vector's numerators, per node
    den,              \* RWR: the score vector's common denominator
    tol,              \* RWR parameter tol, as <<numerator, denominator>>
    max_iter,         \* RWR parameter max_iter
    topk,             \* RWR parameter topk
    df_scores,        \* RWR: the nodes by descending score
    candidatos_guild, \* RWR: the top-k nodes that are no seeds
    genes_modulo,     \* RWR: the module written to guild_genes.txt
    seeds_idx,        \* RWR: the seeds in the order the set semillas yields them
    diamond_genes,    \* the lines written to diamond_genes.txt
    previo,           \* the score vector an earlier run on these inputs returned
    corrida,          \* number of the run on these inputs
    red_txt,          \* the text of network_arabidopsis.txt
    sem_txt,          \* the text of genes_semilla_stringid.txt
    intentos,         \* the delimiters read_edgelist was called with, in order
    generados         \* pipeline: the files this run of main() has written

\* the state of ejecutar_guild's propagation and of its parameters
guildVars == <<p, den, tol, max_iter, topk, df_scores, candidatos_guild,
               genes_modulo, seeds_idx>>

\* the state of the input files, of the pipeline and of repeated runs
otrasVars == <<previo, corrida, red_txt, sem_txt, intentos, generados>>

vars == <<nodes, edges, leidas, semillas, semillas_limpias, nodos_limpios,
          renorm, K, candidatos, results, motivo_parada, i, df_final,
          motor, pc, archivos, guildVars, diamond_genes, otrasVars>>

---------------------------------------------------------------------------
(* Bounds of the model *)

\* number of dot-separated segments of an identifier (normalizer inputs)
MaxSegs == 3
\* number of identifiers in a node set or a seed list (normalizer inputs)
MaxPick == 2
\* number of nodes of the small component the seeds live in
MaxCore == 3
\* number of nodes up to which that component may have self-loops
MaxLoopCore == 2
\* sizes of the separate path component that only raises the node count
PadSmall == 17
PadBig == 40
\* length of the long path graph on which the growth limit is hit
LongPath == 103
\* largest max_iter passed to ejecutar_guild
MaxRwrIter == 3
\* a coarse tolerance 1 / CoarseTolInv passed to ejecutar_guild
CoarseTolInv == 4
\* number of fields of a line of the edge-list file
MaxCols == 3
\* number of characters of the seed-list file
MaxTexto == 4

(* Program constants *)
MaxIter == 200
MaxAdded == 100
\* the significance cutoff 0.05 as the fraction 1 / CutoffInv
CutoffInv == 20
\* ejecutar_guild's defaults: alpha = AlphaNum / AlphaDen, tol = 1 / TolInv
AlphaNum == 1
AlphaDen == 2
TolInv == 100000000
TopK == 100

Dot == 0
Letters == {1, 2}
\* the characters " ", "\t", "," and "\n"
Space == 10
Tab == 11
Comma == 12
NL == 13
\* a file: whether it exists, and its text
Archivo(t) == [existe |-> TRUE, texto |-> t]
Ausente == [existe |-> FALSE, texto |-> <<>>]
\* an input file whose text the specification at hand does not follow
NoSeguido == [existe |-> TRUE, texto |-> <<>>]
None == "None"
\* genes_modulo before it is built
NoModule == <<>>
\* previo before a run has returned
NoScores == [p |-> <<>>, den |-> 1, seeds_idx |-> <<>>]

---------------------------------------------------------------------------
(* Python str operations on identifiers *)

\* str.count(".")
CountDots(g) == Cardinality({k \in 1..Len(g) : g[k] = Dot})

\* str.split(".")[0]: everything before the first dot
FirstSegment(g) ==
    IF \E k \in 1..Len(g) : g[k] = Dot
    THEN LET first == CHOOSE k \in 1..Len(g) :
                        /\ g[k] = Dot
                        /\ \A j \in 1..(k - 1) : g[j] # Dot
         IN  SubSeq(g, 1, first - 1)
    ELSE g

\* str.startswith
StartsWith(n, g) == Len(g) <= Len(n) /\ SubSeq(n, 1, Len(g)) = g

\* limpiar_id (diamond.py) and _clean (analisis_funcional.py): same body
limpiar_id(g) == IF CountDots(g) > 1 THEN FirstSegment(g) ELSE g

\* Python's order on str: lexicographic by character
RECURSIVE LexLess(_, _)
LexLess(a, b) ==
    IF a = <<>> THEN b # <<>>
    ELSE IF b = <<>> THEN FALSE
    ELSE IF a[1] # b[1] THEN a[1] < b[1]
    ELSE LexLess(Tail(a), Tail(b))

\* sorted(S) for a set of str
RECURSIVE sorted(_)
sorted(S) ==
    IF S = {} THEN <<>>
    ELSE LET m == CHOOSE x \in S : \A y \in S \ {x} : LexLess(x, y)
         IN  <<m>> \o sorted(S \ {m})

---------------------------------------------------------------------------
(* Seed reconciliation *)

Failed == [err |-> TRUE, semillas |-> {}]
Matched(S) == [err |-> FALSE, semillas |-> S]

\* a mutant: the prefix fallback is taken even when the intersection matched
ReconcileAlwaysPrefix(S, V) ==
    LET limpias  == {limpiar_id(g) : g \in S}
        posibles == {n \in V : \E g \in limpias : StartsWith(n, g)}
    IN  IF posibles = {} THEN Failed ELSE Matched(posibles)

\* a mutant: the graph nodes are matched without being canonicalised
ReconcileRawNodes(S, V) ==
    LET limpias      == {limpiar_id(g) : g \in S}
        limpios      == {limpiar_id(n) : n \in V}
        interseccion == limpias \cap limpios
        posibles     == {n \in V : \E g \in limpias : StartsWith(n, g)}
    IN  IF interseccion = {}
        THEN IF posibles = {} THEN Failed ELSE Matched(posibles)
        ELSE Matched({n \in V : n \in interseccion})

\* a mutant: the error of line 66 is not raised
ReconcileNoRaise(S, V) ==
    LET limpias      == {limpiar_id(g) : g \in S}
        limpios      == {limpiar_id(n) : n \in V}
        interseccion == limpias \cap limpios
        posibles     == {n \in V : \E g \in limpias : StartsWith(n, g)}
    IN  IF interseccion = {}
        THEN Matched(posibles)
        ELSE Matched({n \in V : limpiar_id(n) \in interseccion})

\* diamond.py lines 58-69
ReconcileDiamond(S, V) ==
    LET limpias      == {limpiar_id(g) : g \in S}
        limpios      == {limpiar_id(n) : n \in V}
        interseccion == limpias \cap limpios
        posibles     == {n \in V : \E g \in limpias : StartsWith(n, g)}
    IN  IF interseccion = {}
        THEN IF posibles = {} THEN Failed ELSE Matched(posibles)
        ELSE Matched({n \in V : limpiar_id(n) \in interseccion})

\* a mutant: without the prefix fallback
ReconcileNoFallback(S, V) ==
    LET norm  == {limpiar_id(s) : s \in S}
        nnorm == {limpiar_id(n) : n \in V}
        inter == norm \cap nnorm
    IN  IF inter # {} THEN Matched({n \in V : limpiar_id(n) \in inter})
        ELSE Failed

\* analisis_funcional.py lines 199-214
ReconcileGuild(S, V) ==
    IF S = {} THEN Failed
    ELSE LET norm     == {limpiar_id(s) : s \in S}
             nnorm    == {limpiar_id(n) : n \in V}
             inter    == norm \cap nnorm
             posibles == {n \in V : \E s \in norm : StartsWith(n, s)}
         IN  IF inter # {}
             THEN Matched({n \in V : limpiar_id(n) \in inter})
             ELSE IF posibles = {} THEN Failed ELSE Matched(posibles)

Reconcile(m, S, V) ==
    IF m = "diamond" THEN ReconcileDiamond(S, V) ELSE ReconcileGuild(S, V)

---------------------------------------------------------------------------
(* Graphs *)

\* every unordered pair of nodes of V, a node with itself included
PossibleEdges(V) == {{u, v} : u \in V, v \in V}

\* nx.read_edgelist adds nodes only as endpoints of edges
Covered(V, E) == \A n \in V : \E e \in E : n \in e

Graph(V, E) == [nodes |-> V, edges |-> E]

\* the path first - (first+1) - ... - (first+n-1), one-character identifiers
PathGraph(first, n) ==
    Graph({<<k>> : k \in first..(first + n - 1)},
          {{<<k>>, <<k + 1>>} : k \in first..(first + n - 2)})

\* the path n1 - n2 - n3 - n4 - n5
ScenarioPath == PathGraph(1, 5)

\* the graphs on the nodes 1..c: simple graphs, and for c up to MaxLoopCore
\* also those with self-loops
CoreGraphs ==
    UNION {{Graph({<<k>> : k \in 1..c}, E) :
              E \in {F \in SUBSET PossibleEdges({<<k>> : k \in 1..c}) :
                       /\ Covered({<<k>> : k \in 1..c}, F)
                       /\ c > MaxLoopCore => \A e \in F : Cardinality(e) = 2}} :
           c \in 1..MaxCore}

BaseGraphs == CoreGraphs \cup {ScenarioPath}

PadSizes == {0, PadSmall, PadBig}

\* a base graph and, apart from it, a path of m further nodes
Padded(g, m) ==
    LET pad == PathGraph(MaxCore + 6, m)
    IN  IF m < 2 THEN g
        ELSE Graph(g.nodes \cup pad.nodes, g.edges \cup pad.edges)

\* an identifier that is no node of any graph above, nor a prefix of one
Stranger == <<1, 1>>

\* set(G.neighbors(n))
neighbors(n) == {m \in nodes : {n, m} \in edges}

degrees(n) == Cardinality(neighbors(n))

\* G.number_of_nodes()
N == Cardinality(nodes)

---------------------------------------------------------------------------
(* The hypergeometric test *)

\* the binomial coefficient, 0 outside 0 <= k <= n
RECURSIVE Binom(_, _)
Binom(n, k) ==
    IF k < 0 \/ k > n THEN 0
    ELSE IF k = 0 THEN 1
    ELSE (Binom(n, k - 1) * (n - k + 1)) \div k

RECURSIVE TailSum(_, _, _, _)
TailSum(j, M, n, draws) ==
    IF j > draws THEN 0
    ELSE Binom(n, j) * Binom(M - n, draws - j) + TailSum(j + 1, M, n, draws)

\* scipy.stats.hypergeom.sf(k, M, n, N) = P(X > k), as <<numerator, denominator>>
HypergeomSf(k, M, n, draws) ==
    <<TailSum(IF k + 1 < 0 THEN 0 ELSE k + 1, M, n, draws), Binom(M, draws)>>

\* a/b < c/d for b, d > 0, without forming the cross products
RECURSIVE FracLess(_, _, _, _)
FracLess(a, b, c, d) ==
    IF a \div b # c \div d THEN a \div b < c \div d
    ELSE IF c % d = 0 THEN FALSE
    ELSE IF a % b = 0 THEN TRUE
    ELSE FracLess(d, c % d, b, a % b)

\* calc_pval, diamond.py lines 81-85, with the node it was computed for
calc_pval(node) ==
    LET k_i == degrees(node)
        k_s == Cardinality(neighbors(node) \cap semillas)
    IN  [node |-> node, pval |-> HypergeomSf(k_s - 1, N, K, k_i), k_s |-> k_s]

\* pvals, line 94
pvals == {calc_pval(node) : node \in candidatos}

\* a mutant: any entry is taken for the smallest
MinimosCualquiera == pvals

\* what min(pvals, key=lambda x: x[1]) can return: an entry no other entry
\* is below; which of several such entries depends on the set's iteration order
Minimos ==
    {x \in pvals : \A y \in pvals :
        ~FracLess(y.pval[1], y.pval[2], x.pval[1], x.pval[2])}

\* a mutant: the significance test is missing
MayAddAlways(q) == TRUE

\* "pval > 0.05" can be false: the exact value is at most 0.05
MayAdd(q) == CutoffInv * q[1] <= q[2]

\* a mutant: the run may stop as not significant whatever the p-value
MayStopAlways(q) == TRUE

\* "pval > 0.05" can be true: the exact value is at least 0.05 (at exactly
\* 0.05 the rounding of the computed float decides)
MayStop(q) == CutoffInv * q[1] >= q[2]

\* a mutant: the growth limit is never seen
GrowthLimitNever(res) == FALSE

\* a mutant: the growth limit is seen one addition late
GrowthLimitLate(res) == Len(res) > MaxAdded

\* line 112
GrowthLimit(res) == Len(res) >= MaxAdded

\* a mutant: the added node replaces the module
AddToModuleReplaces(S, node) == {node}

\* line 104
AddToModule(S, node) == S \cup {node}

\* a mutant: the frontier is not rebuilt around the seeds
InitialFrontierAll(S) == nodes \ S

\* line 88
InitialFrontier(S) == UNION {neighbors(g) : g \in S} \ S

\* a mutant: the frontier keeps the node just added
UpdateFrontierKeeps(C, S, node) == C \cup neighbors(node)

\* a mutant: the frontier is replaced by the added node's neighbours
UpdateFrontierOnlyNew(C, S, node) == neighbors(node) \ S

\* lines 106-107, S the module with the node already added
UpdateFrontier(C, S, node) == (C \cup neighbors(node)) \ S

---------------------------------------------------------------------------
(* ejecutar_diamond *)

SeedRow(g) == [Gen |-> g, pval |-> <<>>, k_s |-> <<>>, Tipo |-> "Semilla"]
AddedRow(x) == [Gen |-> x.node, pval |-> x.pval, k_s |-> <<x.k_s>>, Tipo |-> "Anadido"]

\* a mutant: the added nodes are not taken out of the seed rows
TablaFinalDuplica ==
    LET todas == sorted(semillas)
    IN  [k \in 1..Len(todas) |-> SeedRow(todas[k])]
        \o [k \in 1..Len(results) |-> AddedRow(results[k])]

\* lines 120-131
TablaFinal ==
    LET anadidos   == {results[k].node : k \in 1..Len(results)}
        restantes  == sorted(semillas \ anadidos)
    IN  [k \in 1..Len(restantes) |-> SeedRow(restantes[k])]
        \o [k \in 1..Len(results) |-> AddedRow(results[k])]

\* line 139: the column Gen of the table, one identifier per line
ListaGenes(tabla) == [k \in 1..Len(tabla) |-> tabla[k].Gen]

\* lines 52-90: reconcile the seeds, set up the loop
Reconciliar ==
    /\ pc = "inicio"
    /\ motor = "diamond"
    /\ semillas_limpias' = {limpiar_id(g) : g \in leidas}
    /\ nodos_limpios' = {limpiar_id(n) : n \in nodes}
    /\ LET r == ReconcileDiamond(leidas, nodes)
       IN  IF r.err
           THEN /\ pc' = "error"
                /\ UNCHANGED <<semillas, K, candidatos>>
           ELSE /\ pc' = "bucle"
                /\ semillas' = r.semillas
                /\ K' = Cardinality(r.semillas)
                /\ candidatos' = InitialFrontier(r.semillas)
    /\ UNCHANGED guildVars
    /\ UNCHANGED <<otrasVars, diamond_genes>>
    /\ UNCHANGED <<archivos, nodes, edges, leidas, renorm, results, motivo_parada, i,
                   df_final, motor>>

\* lines 94-97: no candidate is left
SinCandidatos ==
    /\ pc = "bucle"
    /\ pvals = {}
    /\ motivo_parada' = "sin_candidatos"
    /\ pc' = "post"
    /\ UNCHANGED guildVars
    /\ UNCHANGED <<otrasVars, diamond_genes>>
    /\ UNCHANGED <<archivos, nodes, edges, leidas, semillas, semillas_limpias,
                   nodos_limpios, renorm, K, candidatos, results, i,
                   df_final, motor>>

\* lines 99-102: the best candidate is not significant
NoSignificativo ==
    /\ pc = "bucle"
    /\ \E x \in Minimos : MayStop(x.pval)
    /\ motivo_parada' = "no_significativo"
    /\ pc' = "post"
    /\ UNCHANGED guildVars
    /\ UNCHANGED <<otrasVars, diamond_genes>>
    /\ UNCHANGED <<archivos, nodes, edges, leidas, semillas, semillas_limpias,
                   nodos_limpios, renorm, K, candidatos, results, i,
                   df_final, motor>>

\* lines 99-114: the best candidate is added; the loop goes on unless the
\* growth limit or the end of range(200) is reached
Anadir ==
    /\ pc = "bucle"
    /\ \E x \in Minimos :
         /\ MayAdd(x.pval)
         /\ semillas' = AddToModule(semillas, x.node)
         /\ results' = Append(results, x)
         /\ candidatos' = UpdateFrontier(candidatos, semillas', x.node)
    /\ i' = i + 1
    /\ IF GrowthLimit(results')
       THEN motivo_parada' = "limite_genes" /\ pc' = "post"
       ELSE /\ UNCHANGED motivo_parada
            /\ pc' = IF i' >= MaxIter THEN "post" ELSE "bucle"
    /\ UNCHANGED guildVars
    /\ UNCHANGED <<otrasVars, diamond_genes>>
    /\ UNCHANGED <<archivos, nodes, edges, leidas, semillas_limpias, nodos_limpios,
                   renorm, K, df_final, motor>>

\* lines 116-146: the stop reason of an exhausted range, the result table
Guardar ==
    /\ pc = "post"
    /\ motivo_parada' = IF motivo_parada = None THEN "limite_iteraciones"
                        ELSE motivo_parada
    /\ df_final' = TablaFinal
    /\ diamond_genes' = ListaGenes(df_final')
    /\ archivos' = archivos \cup {"diamond_results.csv", "diamond_genes.txt"}
    /\ pc' = "hecho"
    /\ UNCHANGED guildVars
    /\ UNCHANGED otrasVars
    /\ UNCHANGED <<nodes, edges, leidas, semillas, semillas_limpias,
                   nodos_limpios, renorm, K, candidatos, results, i, motor>>

\* the seed lists tried on a base graph: any of its nodes, and an identifier
\* that is not in the graph, alone or with a node
SeedSets(b) == (SUBSET b.nodes) \cup {{Stranger}, {Stranger, <<1>>}}

\* the inputs of a run: a graph and the seeds read from the seed file
Entradas ==
    UNION {{[g |-> Padded(b, m), leidas |-> S] :
              m \in PadSizes, S \in SeedSets(b)} : b \in BaseGraphs}
    \cup {[g |-> PathGraph(1, LongPath), leidas |-> {<<1>>}]}

Init ==
    /\ \E e \in Entradas :
         /\ nodes = e.g.nodes
         /\ edges = e.g.edges
         /\ leidas = e.leidas
         /\ semillas = e.leidas
    /\ semillas_limpias = {}
    /\ nodos_limpios = {}
    /\ renorm = Failed
    /\ K = 0
    /\ candidatos = {}
    /\ results = <<>>
    /\ motivo_parada = None
    /\ i = 0
    /\ df_final = <<>>
    /\ motor = "diamond"
    /\ pc = "inicio"
    /\ archivos = {}
    /\ p = <<>>
    /\ den = 1
    /\ tol = <<1, TolInv>>
    /\ max_iter = 0
    /\ topk = TopK
    /\ df_scores = <<>>
    /\ candidatos_guild = <<>>
    /\ genes_modulo = NoModule
    /\ seeds_idx = <<>>
    /\ diamond_genes = <<>>
    /\ previo = NoScores
    /\ corrida = 1
    /\ red_txt = NoSeguido
    /\ sem_txt = NoSeguido
    /\ intentos = <<>>
    /\ generados = {}

Next == Reconciliar \/ SinCandidatos \/ NoSignificativo \/ Anadir \/ Guardar

Spec == Init /\ [][Next]_vars

TypeOK ==
    /\ pc \in {"inicio", "bucle", "post", "hecho", "error"}
    /\ semillas \subseteq nodes \cup leidas
    /\ i \in 0..MaxIter

\* the run goes on until it is over: the engine is one sequential function
FairSpec == Spec /\ WF_vars(Next)

---------------------------------------------------------------------------
(* Properties of ejecutar_diamond *)

IsPrefix(a, b) == Len(a) <= Len(b) /\ SubSeq(b, 1, Len(a)) = a

\* the nodes added so far, in addition order
Added == [k \in 1..Len(results) |-> results[k].node]

\* the outcome of reconciling the seeds as read against the graph
Reconciled == ReconcileDiamond(leidas, nodes)

InLoop == pc \in {"bucle", "post"}

\* the step appends an entry to results
Appends == Len(results') = Len(results) + 1

\* every candidate that min() can return has an exact p-value above 0.05
BestExceeds ==
    /\ candidatos # {}
    /\ \A x \in Minimos : CutoffInv * x.pval[1] > x.pval[2]

\* C1: every entry of the added-node list carries a p-value <= 0.05, which is
\* the hypergeometric value computed for a frontier node at the moment it was
\* added; and when the best frontier candidate's p-value exceeds 0.05 the
\* loop stops with the reason "not significant" and nothing is added.
C1_NeverAddsInsignificant ==
    /\ [](\A k \in 1..Len(results) :
             CutoffInv * results[k].pval[1] <= results[k].pval[2])
    /\ [][Appends =>
             LET x == results'[Len(results')]
             IN  /\ x.node \in candidatos
                 /\ x.pval = HypergeomSf(x.k_s - 1, N, K, degrees(x.node))
                 /\ x.k_s = Cardinality(neighbors(x.node) \cap semillas)
                 /\ CutoffInv * x.pval[1] <= x.pval[2]]_vars
    /\ [][(pc = "bucle" /\ BestExceeds) =>
             /\ pc' = "post"
             /\ motivo_parada' = "no_significativo"
             /\ results' = results
             /\ semillas' = semillas]_vars

\* a run that added a node and then met a best candidate above 0.05
C1_Witness ==
    /\ pc = "post"
    /\ motivo_parada = "no_significativo"
    /\ Len(results) >= 1
    /\ BestExceeds

\* C2: the loop never runs more than 200 iterations nor adds more than 100
\* nodes, every iteration either ends the loop or counts one more iteration,
\* and every run comes to its end.
C2_LoopBounded ==
    /\ [](i <= 200 /\ Len(results) <= 100 /\ Len(results) <= i)
    /\ [](pc = "bucle" => i < 200 /\ Len(results) < 100)
    /\ [][pc = "bucle" => (pc' = "post" \/ i' = i + 1)]_vars
    /\ <>(pc \in {"hecho", "error"})

\* a run that stopped because 100 nodes were added
C2_Witness ==
    /\ pc = "hecho"
    /\ Len(results) = 100
    /\ i = 100
    /\ motivo_parada = "limite_genes"

\* C3: from the start of the loop on, a step never removes a node from the
\* module nor an entry from the added-node list, the module's size never
\* decreases, and every added node is in the module.
C3_ModuleOnlyGrows ==
    /\ [](pc \in {"bucle", "post", "hecho"} =>
             /\ \A k \in 1..Len(results) : results[k].node \in semillas
             /\ Cardinality(semillas) = K + Len(results))
    /\ [][InLoop =>
             /\ semillas \subseteq semillas'
             /\ Cardinality(semillas) <= Cardinality(semillas')
             /\ IsPrefix(results, results')]_vars
    /\ [][(InLoop /\ Appends) =>
             semillas' = semillas \cup {results'[Len(results')].node}]_vars

\* a module that grew twice
C3_Witness ==
    /\ pc = "bucle"
    /\ Len(results) = 2
    /\ Cardinality(semillas) = K + 2

\* the reconciled seed set has no neighbour outside itself
SeedsIsolated ==
    /\ ~Reconciled.err
    /\ \A s \in Reconciled.semillas : \A n \in nodes :
          {s, n} \in edges => n \in Reconciled.semillas

\* C8: when the reconciled seed set has no neighbour outside itself the run
\* raises no error, its frontier is empty from the first iteration, it stops
\* with "frontier exhausted" without adding a node, and the module and the
\* result table hold exactly the reconciled seeds.
C8_IsolatedSeedsStop ==
    SeedsIsolated =>
        /\ pc # "error"
        /\ results = <<>>
        /\ i = 0
        /\ pc # "inicio" => semillas = Reconciled.semillas /\ candidatos = {}
        /\ pc \in {"post", "hecho"} => motivo_parada = "sin_candidatos"
        /\ pc = "hecho" =>
              /\ {df_final[k].Gen : k \in 1..Len(df_final)} = Reconciled.semillas
              /\ \A k \in 1..Len(df_final) : df_final[k].Tipo = "Semilla"

\* a finished run on isolated seeds in a graph that has other nodes
C8_Witness ==
    /\ SeedsIsolated
    /\ pc = "hecho"
    /\ motivo_parada = "sin_candidatos"
    /\ semillas # nodes

\* the seeds' component is the path n1 - ... - n5 and the seed is n1
IsScenarioA ==
    /\ ScenarioPath.nodes \subseteq nodes
    /\ \A e \in edges :
          e \cap ScenarioPath.nodes # {} <=> e \in ScenarioPath.edges
    /\ leidas = {<<1>>}

\* C9: on the path n1 - ... - n5 seeded with n1 the frontier is {n2} at the
\* first iteration and {n3} after n2 was added; the nodes are added in path
\* order, so module order is a prefix of [n1, ..., n5]; the run ends only on
\* an exhausted frontier or a candidate above 0.05; on the five-node graph
\* itself the first candidate is already above 0.05 and the module stays [n1].
C9_PathOrder ==
    IsScenarioA =>
        /\ pc # "error"
        /\ (pc = "bucle" /\ i = 0) => candidatos = {<<2>>}
        /\ (pc = "bucle" /\ Added = <<<<2>>>>) => candidatos = {<<3>>}
        /\ IsPrefix(<<<<1>>>> \o Added, <<<<1>>, <<2>>, <<3>>, <<4>>, <<5>>>>)
        /\ pc = "bucle" => candidatos = {<<Len(results) + 2>>} \cap nodes
        /\ pc \in {"post", "hecho"} =>
              motivo_parada \in {"sin_candidatos", "no_significativo"}
        /\ pc = "hecho" =>
              [k \in 1..Len(df_final) |-> df_final[k].Gen] = <<<<1>>>> \o Added
        /\ (pc = "hecho" /\ N = 5) =>
              results = <<>> /\ motivo_parada = "no_significativo"

\* the five-node path itself, run to its end
C9_Witness ==
    /\ IsScenarioA
    /\ N = 5
    /\ pc = "hecho"
    /\ [k \in 1..Len(df_final) |-> df_final[k].Gen] = <<<<1>>>>

\* the column Gen of the result table
Genes == [k \in 1..Len(df_final) |-> df_final[k].Gen]

\* the number of reconciled seeds
NSeeds == Cardinality(Reconciled.semillas)

\* C15: the result table of a finished run lists every module node once:
\* first the reconciled seeds, as rows "Semilla" without p-value and without
\* connectivity, then the added nodes in addition order, as rows "Anadido"
\* with the p-value and connectivity recorded when they were added; the gene
\* list holds the same identifiers in the same order.
C15_TableSeedsThenAdded ==
    pc = "hecho" =>
        /\ Len(df_final) = NSeeds + Len(results)
        /\ {Genes[k] : k \in 1..Len(df_final)} = semillas
        /\ Cardinality(semillas) = Len(df_final)
        /\ {Genes[k] : k \in 1..NSeeds} = Reconciled.semillas
        /\ \A k \in 1..NSeeds :
              /\ df_final[k].Tipo = "Semilla"
              /\ df_final[k].pval = <<>>
              /\ df_final[k].k_s = <<>>
        /\ \A k \in 1..Len(results) :
              /\ df_final[NSeeds + k].Tipo = "Anadido"
              /\ df_final[NSeeds + k].Gen = results[k].node
              /\ df_final[NSeeds + k].pval = results[k].pval
              /\ df_final[NSeeds + k].k_s = <<results[k].k_s>>
        /\ diamond_genes = Genes

\* a finished run with two seeds and at least two added nodes, added in
\* another order than the sorted one
C15_Witness ==
    /\ pc = "hecho"
    /\ NSeeds = 2
    /\ Len(results) >= 2
    /\ Len(diamond_genes) = 2 + Len(results)
    /\ \E k \in 3..(Len(diamond_genes) - 1) :
          LexLess(diamond_genes[k + 1], diamond_genes[k])

\* the nodes outside the module S that have an edge to a member of S
Adjacent(S) == {n \in nodes \ S : \E m \in S : {n, m} \in edges}

\* C21: at the start of every iteration and after every addition the frontier
\* is exactly the set of nodes outside the module that are adjacent to a
\* module member, so frontier and module are disjoint; an addition turns the
\* frontier into (frontier united with the added node's neighbours) minus
\* the module.
C21_FrontierIsBoundary ==
    /\ [](pc \in {"bucle", "post", "hecho"} =>
             /\ candidatos = Adjacent(semillas)
             /\ candidatos \cap semillas = {})
    /\ [][Appends =>
             LET node == results'[Len(results')].node
                 vecinos == {m \in nodes : {node, m} \in edges}
             IN  /\ candidatos' = (candidatos \cup vecinos) \ semillas'
                 /\ candidatos' = Adjacent(semillas')]_vars

\* after two additions the frontier still holds a node that is no neighbour
\* of the node added last
C21_Witness ==
    /\ pc = "bucle"
    /\ Len(results) = 2
    /\ \E c \in candidatos : {c, results[2].node} \notin edges

\* P(X >= k) for X hypergeometric: M nodes, n of them seeds, draws drawn
TailFrom(k, M, n, draws) == <<TailSum(k, M, n, draws), Binom(M, draws)>>

\* the p-value of the candidate c against the module S
PValueOf(c, S) ==
    LET vecinos == {m \in nodes : {c, m} \in edges}
    IN  TailFrom(Cardinality(vecinos \cap S), N, NSeeds, Cardinality(vecinos))

\* C22: the node an iteration adds has the smallest p-value of the frontier
\* of that moment: no candidate has a strictly smaller one, each p-value being
\* P(X >= k_s) of the hypergeometric distribution with the node count as
\* population, the initial reconciled seed count as successes and the
\* candidate's degree as draws, k_s counting the candidate's neighbours in
\* the current module.
C22_AddsMinimalPValue ==
    [][Appends =>
          LET x == results'[Len(results')]
          IN  /\ x.node \in candidatos
              /\ x.pval = PValueOf(x.node, semillas)
              /\ \A c \in candidatos :
                    LET q == PValueOf(c, semillas)
                    IN  ~FracLess(q[1], q[2], x.pval[1], x.pval[2])]_vars

\* the first addition was made while the frontier held a candidate with a
\* strictly larger p-value, itself not above 0.05
C22_Witness ==
    /\ pc = "bucle"
    /\ Len(results) = 1
    /\ \E c \in candidatos \cap Adjacent(Reconciled.semillas) :
          LET q == PValueOf(c, Reconciled.semillas)
          IN  /\ FracLess(results[1].pval[1], results[1].pval[2], q[1], q[2])
              /\ CutoffInv * q[1] <= q[2]

\* the stop reasons ejecutar_diamond can record
Motivos ==
    {"sin_candidatos", "no_significativo", "limite_genes", "limite_iteraciones"}

\* the smallest p-value of the frontier is at least 0.05 (at exactly 0.05 the
\* computed float may or may not exceed it)
BestMayExceed ==
    \E c \in candidatos :
        /\ CutoffInv * PValueOf(c, semillas)[1] >= PValueOf(c, semillas)[2]
        /\ \A d \in candidatos :
              ~FracLess(PValueOf(d, semillas)[1], PValueOf(d, semillas)[2],
                        PValueOf(c, semillas)[1], PValueOf(c, semillas)[2])

\* C23: a run that passes seed matching ends with one stop reason, which
\* names the condition that ended the loop: "frontier exhausted" only on an
\* empty frontier, "not significant" only on a non-empty frontier whose best
\* p-value exceeded 0.05, "growth limit" only with exactly 100 added nodes,
\* "iteration limit" only after 200 iterations with none of the others; an
\* iteration checks the empty frontier first, then the p-value, then the
\* number of added nodes; and the result table is produced in every case.
C23_StopReasonNamesCause ==
    /\ [](pc = "bucle" => motivo_parada = None)
    /\ [](pc = "hecho" => motivo_parada \in Motivos)
    /\ [](motivo_parada = "sin_candidatos" => candidatos = {})
    /\ [](motivo_parada = "no_significativo" =>
             candidatos # {} /\ BestMayExceed)
    /\ [](motivo_parada = "limite_genes" => Len(results) = 100)
    /\ [](motivo_parada = "limite_iteraciones" =>
             i = 200 /\ Len(results) < 100)
    /\ [][(pc = "bucle" /\ candidatos = {}) =>
             motivo_parada' = "sin_candidatos"]_vars
    /\ [][(pc = "bucle" /\ BestExceeds) =>
             motivo_parada' = "no_significativo"]_vars
    /\ [][(Appends /\ Len(results') >= 100) =>
             motivo_parada' = "limite_genes"]_vars
    /\ [][(pc = "post" /\ motivo_parada # None) =>
             motivo_parada' = motivo_parada]_vars
    /\ [][pc = "hecho" => UNCHANGED <<motivo_parada, df_final>>]_vars
    /\ (pc = "bucle" ~>
           (pc = "hecho" /\ Len(df_final) = Cardinality(semillas)))

\* a finished run that added a node, then met a best candidate that was not
\* significant, with its table
C23_Witness ==
    /\ pc = "hecho"
    /\ motivo_parada = "no_significativo"
    /\ Len(results) >= 1
    /\ candidatos # {}
    /\ Len(df_final) = Cardinality(semillas)

\* C25: every iteration that does not stop the run adds exactly one node, so
\* the number of completed iterations equals the number of added nodes; the
\* loop never runs more than 100 iterations, the loop is never left without
\* a stop reason, and the reason "iteration limit" is never recorded.
C25_IterationLimitUnreachable ==
    /\ [](Len(results) = i)
    /\ [](i <= 100)
    /\ [](pc = "post" => motivo_parada # None)
    /\ [](motivo_parada # "limite_iteraciones")
    /\ [][(pc = "bucle" /\ pc' = "bucle") =>
             /\ i' = i + 1
             /\ Len(results') = Len(results) + 1
             /\ Cardinality(semillas') = Cardinality(semillas) + 1]_vars
    /\ [][(pc = "bucle" /\ pc' # "bucle" /\ results' = results) =>
             i' = i /\ motivo_parada' \in {"sin_candidatos", "no_significativo"}]_vars

\* the loop was left after its hundredth iteration, which added the
\* hundredth node
C25_Witness ==
    /\ pc = "post"
    /\ i = MaxAdded
    /\ Len(results) = i
    /\ motivo_parada # None

---------------------------------------------------------------------------
(* ejecutar_diamond called again on the same files *)

\* what a finished run returned
Resultado == [added |-> Added, motivo |-> motivo_parada, tabla |-> df_final]

\* the second call: the files are as they were, the function's locals are new
RepetirDiamond ==
    /\ pc = "hecho"
    /\ motor = "diamond"
    /\ corrida = 1
    /\ corrida' = 2
    /\ previo' = Resultado
    /\ pc' = "inicio"
    /\ semillas' = leidas
    /\ semillas_limpias' = {}
    /\ nodos_limpios' = {}
    /\ K' = 0
    /\ candidatos' = {}
    /\ results' = <<>>
    /\ motivo_parada' = None
    /\ i' = 0
    /\ df_final' = <<>>
    /\ UNCHANGED guildVars
    /\ UNCHANGED <<archivos, nodes, edges, leidas, renorm, motor, diamond_genes,
                   red_txt, sem_txt, intentos, generados>>

\* the best p-value is exactly 0.05: whether the computed float exceeds 0.05
\* is the same in both runs, but which it is the model leaves open
Exacto05 ==
    /\ pc = "bucle"
    /\ \E x \in Minimos : CutoffInv * x.pval[1] = x.pval[2]

\* the two runs are followed as long as no comparison is at that boundary
NextDiamond2 ==
    \/ ~Exacto05 /\ Reconciliar
    \/ ~Exacto05 /\ SinCandidatos
    \/ ~Exacto05 /\ NoSignificativo
    \/ ~Exacto05 /\ Anadir
    \/ ~Exacto05 /\ Guardar
    \/ RepetirDiamond

SpecDiamond2 == Init /\ [][NextDiamond2]_vars

\* C24 (as claimed): a second run on the same graph and the same seeds adds
\* the same nodes in the same order and stops for the same reason as the
\* first, also when candidates share the smallest p-value.
C24_TiesDeterministic ==
    (corrida = 2 /\ pc = "hecho") =>
        Added = previo.added /\ motivo_parada = previo.motivo

---------------------------------------------------------------------------
(* The identifier normalizer of both engines, on its own *)

\* the letter b followed by n - 1 version suffixes ".1"
RECURSIVE Versioned(_, _)
Versioned(b, n) == IF n <= 1 THEN <<b>> ELSE Versioned(b, n - 1) \o <<Dot, 1>>

\* identifiers with zero to MaxSegs - 1 version suffixes, and two-letter ones
Ids == {Versioned(b, n) : b \in Letters, n \in 1..MaxSegs}
       \cup {<<b, 1>> : b \in Letters}

\* the subsets of S with at most n elements
RECURSIVE Picks(_, _)
Picks(S, n) ==
    IF n = 0 THEN {{}}
    ELSE Picks(S, n - 1) \cup {P \cup {x} : P \in Picks(S, n - 1), x \in S}

\* a graph on the nodes V in which every node has an edge
SomeGraph(V) ==
    Graph(V, IF Cardinality(V) = 1 THEN {V}
             ELSE {e \in PossibleEdges(V) : Cardinality(e) = 2})

InitNorm ==
    /\ \E V \in Picks(Ids, MaxPick) \ {{}}, S \in Picks(Ids, MaxPick) :
         /\ nodes = V
         /\ edges = SomeGraph(V).edges
         /\ leidas = S
         /\ semillas = S
    /\ semillas_limpias = {}
    /\ nodos_limpios = {}
    /\ renorm = Failed
    /\ K = 0
    /\ candidatos = {}
    /\ results = <<>>
    /\ motivo_parada = None
    /\ i = 0
    /\ df_final = <<>>
    /\ motor = "ninguno"
    /\ pc = "inicio"
    /\ archivos = {}
    /\ p = <<>>
    /\ den = 1
    /\ tol = <<1, TolInv>>
    /\ max_iter = 0
    /\ topk = TopK
    /\ df_scores = <<>>
    /\ candidatos_guild = <<>>
    /\ genes_modulo = NoModule
    /\ seeds_idx = <<>>
    /\ diamond_genes = <<>>
    /\ previo = NoScores
    /\ corrida = 1
    /\ red_txt = NoSeguido
    /\ sem_txt = NoSeguido
    /\ intentos = <<>>
    /\ generados = {}

\* diamond.py lines 58-69 or analisis_funcional.py lines 199-214, for engine m
Normalizar(m) ==
    /\ pc = "inicio"
    /\ motor' = m
    /\ semillas_limpias' = {limpiar_id(g) : g \in leidas}
    /\ nodos_limpios' = {limpiar_id(n) : n \in nodes}
    /\ LET r == Reconcile(m, leidas, nodes)
       IN  IF r.err
           THEN pc' = "error" /\ UNCHANGED semillas
           ELSE pc' = "normalizado" /\ semillas' = r.semillas
    /\ UNCHANGED guildVars
    /\ UNCHANGED <<otrasVars, diamond_genes>>
    /\ UNCHANGED <<archivos, nodes, edges, leidas, renorm, K, candidatos, results,
                   motivo_parada, i, df_final>>

NormalizarDiamond == Normalizar("diamond")

NormalizarGuild == Normalizar("guild")

\* the same engine's normalizer again, on the reconciled seed set
Renormalizar ==
    /\ pc = "normalizado"
    /\ renorm' = Reconcile(motor, semillas, nodes)
    /\ pc' = "renormalizado"
    /\ UNCHANGED guildVars
    /\ UNCHANGED <<otrasVars, diamond_genes>>
    /\ UNCHANGED <<archivos, nodes, edges, leidas, semillas, semillas_limpias,
                   nodos_limpios, K, candidatos, results, motivo_parada, i,
                   df_final, motor>>

NextNorm == NormalizarDiamond \/ NormalizarGuild \/ Renormalizar

SpecNorm == InitNorm /\ [][NextNorm]_vars

Normalized == pc \in {"normalizado", "renormalizado"}

\* C4: for seeds that are all nodes of the graph, normalizing the reconciled
\* seed set again does not fail and returns the same set; such seeds, unless
\* the list is empty, are never rejected and are all kept.
C4_NormalizeIdempotent ==
    leidas \subseteq nodes =>
        /\ pc = "renormalizado" => ~renorm.err /\ renorm.semillas = semillas
        /\ (pc = "error") => leidas = {}
        /\ Normalized => leidas \subseteq semillas

\* seeds in the graph, a reconciled set larger than the seed list, and the
\* second normalization returning that set
C4_Witness ==
    /\ pc = "renormalizado"
    /\ leidas \subseteq nodes
    /\ leidas # semillas
    /\ renorm = Matched(semillas)

\* a node without dots and a seed that is this node with a version suffix
VersionedSeedOf(n) == CountDots(n) = 0 /\ (n \o <<Dot, 1>>) \in leidas

\* C5 (as claimed): a seed carrying a version suffix that its graph node
\* lacks is reconciled with that node instead of failing.
C5_VersionSuffixResolved ==
    (\E n \in nodes : VersionedSeedOf(n)) =>
        /\ pc # "error"
        /\ Normalized => \E n \in semillas : VersionedSeedOf(n)

\* canonical(id) as claimed: the identifier without its last dot-separated
\* segment when it has more than one dot, the identifier itself otherwise
StripLastSegment(g) ==
    IF CountDots(g) > 1
    THEN LET last == CHOOSE k \in 1..Len(g) :
                       /\ g[k] = Dot
                       /\ \A j \in (k + 1)..Len(g) : g[j] # Dot
         IN  SubSeq(g, 1, last - 1)
    ELSE g

\* C6 (as claimed): the canonical forms the normalizer computes are the
\* identifiers with only their last segment removed when they hold more than
\* one dot, and the identifiers themselves otherwise.
C6_CanonicalStripsLast ==
    pc # "inicio" =>
        /\ semillas_limpias = {StripLastSegment(g) : g \in leidas}
        /\ nodos_limpios = {StripLastSegment(n) : n \in nodes}

\* the canonical intersection and the prefix matches, from the canonical
\* forms the normalizer computed
CanonMatches ==
    {n \in nodes : limpiar_id(n) \in semillas_limpias \cap nodos_limpios}
PrefixMatches ==
    {n \in nodes : \E g \in semillas_limpias : StartsWith(n, g)}

\* C7: normalization fails exactly when neither the canonical intersection
\* nor the prefix fallback matches a node (an empty seed list included);
\* otherwise the reconciled set is non-empty, within the graph's nodes, and
\* it is the canonical match whenever that is non-empty and the prefix
\* match only when it is empty.
C7_FailsOrNonEmptySubset ==
    pc # "inicio" =>
        /\ pc = "error" <=> (CanonMatches = {} /\ PrefixMatches = {})
        /\ leidas = {} => pc = "error"
        /\ Normalized =>
              /\ semillas # {}
              /\ semillas \subseteq nodes
              /\ semillas = IF CanonMatches # {} THEN CanonMatches
                            ELSE PrefixMatches

\* a seed list reconciled through the prefix fallback
C7_Witness ==
    /\ pc = "normalizado"
    /\ CanonMatches = {}
    /\ semillas = PrefixMatches
    /\ semillas # {}

\* the engine that did not run in this behaviour
OtroMotor == IF motor = "diamond" THEN "guild" ELSE "diamond"

\* C16: on the same graph and the same seeds as read, the reconciliation of
\* the engine that ran and that of the other engine agree: both fail, or both
\* give the same reconciled seed set.
C16_EnginesReconcileAlike ==
    /\ pc = "error" => Reconcile(OtroMotor, leidas, nodes).err
    /\ Normalized => Reconcile(OtroMotor, leidas, nodes) = Matched(semillas)

\* seeds reconciled through the prefix fallback to more nodes than seeds
C16_Witness ==
    /\ pc = "normalizado"
    /\ CanonMatches = {}
    /\ Cardinality(semillas) > Cardinality(leidas)
    /\ Reconcile(OtroMotor, leidas, nodes) = Matched(semillas)

---------------------------------------------------------------------------
(* ejecutar_guild: random walk with restart *)

RECURSIVE SumOver(_, _)
\* the sum of f[x] over x in S
SumOver(f, S) ==
    IF S = {} THEN 0
    ELSE LET x == CHOOSE y \in S : TRUE
         IN  f[x] + SumOver(f, S \ {x})

RECURSIVE Gcd(_, _)
Gcd(a, b) == IF b = 0 THEN a ELSE Gcd(b, a % b)

RECURSIVE GcdOver(_)
GcdOver(S) ==
    IF S = {} THEN 0
    ELSE LET x == CHOOSE y \in S : TRUE
         IN  Gcd(x, GcdOver(S \ {x}))

RECURSIVE LcmOver(_)
LcmOver(S) ==
    IF S = {} THEN 1
    ELSE LET x == CHOOSE y \in S : TRUE
             l == LcmOver(S \ {x})
         IN  (x * l) \div Gcd(x, l)

Abs(x) == IF x < 0 THEN 0 - x ELSE x

\* the matrix A, lines 219-224: an edge puts 1 at both of its places, a
\* self-loop therefore 2 at its one place
A(v, u) == IF {u, v} \in edges THEN (IF u = v THEN 2 ELSE 1) ELSE 0

\* a mutant: the columns are not normalised
col_sums_one(u) == 1

\* lines 225-226: the column sums, 1 where a column is empty
col_sums(u) ==
    LET sum == SumOver([v \in nodes |-> A(v, u)], nodes)
    IN  IF sum = 0 THEN 1 ELSE sum

\* the least common multiple of the column sums
ColLcm == LcmOver({col_sums(u) : u \in nodes})

\* the orders in which iterating over the set S can yield its elements
Ordenes(S) ==
    {o \in [1..Cardinality(S) -> S] :
        \A a, b \in 1..Cardinality(S) : a # b => o[a] # o[b]}

\* a mutant: only the first seed enumerated gets restart mass
RestartNumFirst(sq, v) == IF sq # <<>> /\ sq[1] = v THEN Len(sq) ELSE 0

\* lines 230-232: r[seeds_idx] = 1.0 / len(seeds_idx), as the numerator at v
\* over the denominator len(seeds_idx)
RestartNum(sq, v) == IF \E k \in 1..Len(sq) : sq[k] = v THEN 1 ELSE 0

RNum(v) == RestartNum(seeds_idx, v)
RDen == Len(seeds_idx)

\* line 237: p_new = (1 - alpha) * (W @ p) + alpha * r over the denominator
\* NewDen, W[v][u] being A(v, u) / col_sums(u)
NewDen == AlphaDen * ColLcm * RDen * den
NewNum(v) ==
    (AlphaDen - AlphaNum) * RDen
        * SumOver([u \in nodes |->
                     A(v, u) * (ColLcm \div col_sums(u)) * p[u]], nodes)
    + AlphaNum * ColLcm * den * RNum(v)

\* line 238: np.linalg.norm(p_new - p, 1) < tol
DiffNum ==
    SumOver([v \in nodes |->
               Abs(NewNum(v) - p[v] * AlphaDen * ColLcm * RDen)], nodes)

\* a mutant: the convergence test is missing
ConvergedNever == FALSE

Converged == FracLess(DiffNum, NewDen, tol[1], tol[2])

\* p_new in lowest terms
NewGcd == Gcd(GcdOver({NewNum(v) : v \in nodes}), NewDen)
p_new == [v \in nodes |-> NewNum(v) \div NewGcd]
den_new == NewDen \div NewGcd

\* the orders sort_values("Score", ascending=False) can leave the nodes in:
\* descending by score, equal scores in an order the sort decides
OrdenesPorScore ==
    {o \in [1..Cardinality(nodes) -> nodes] :
        /\ \A a, b \in 1..Cardinality(nodes) : a # b => o[a] # o[b]
        /\ \A a \in 1..(Cardinality(nodes) - 1) : p[o[a]] >= p[o[a + 1]]}

\* a mutant: the seeds are not filtered out of the ranked nodes
RECURSIVE HeadWithSeeds(_, _)
HeadWithSeeds(o, k) ==
    IF o = <<>> \/ k <= 0 THEN <<>>
    ELSE <<Head(o)>> \o HeadWithSeeds(Tail(o), k - 1)

\* df[~isin(semillas)].head(topk): the first topk nodes of o that are no seeds
RECURSIVE NoSeedHead(_, _)
NoSeedHead(o, k) ==
    IF o = <<>> \/ k <= 0 THEN <<>>
    ELSE IF Head(o) \in semillas THEN NoSeedHead(Tail(o), k)
    ELSE <<Head(o)>> \o NoSeedHead(Tail(o), k - 1)

\* lines 199-235: reconcile the seeds, build W, r and p = r.copy()
IniciarGuild ==
    /\ pc = "inicio"
    /\ motor = "guild"
    /\ semillas_limpias' = {limpiar_id(g) : g \in leidas}
    /\ nodos_limpios' = {limpiar_id(n) : n \in nodes}
    /\ LET r == ReconcileGuild(leidas, nodes)
       IN  IF r.err
           THEN /\ pc' = "error"
                /\ UNCHANGED <<semillas, seeds_idx, p, den>>
           ELSE /\ pc' = IF max_iter > 0 THEN "rwr" ELSE "tabla"
                /\ semillas' = r.semillas
                /\ seeds_idx' \in Ordenes(r.semillas)
                /\ p' = [v \in nodes |-> RestartNum(seeds_idx', v)]
                /\ den' = Len(seeds_idx')
    /\ UNCHANGED <<archivos, nodes, edges, leidas, renorm, K, candidatos,
                   results, motivo_parada, i, df_final, motor, tol, max_iter,
                   topk, df_scores, candidatos_guild, genes_modulo>>
    /\ UNCHANGED <<otrasVars, diamond_genes>>

\* lines 236-240: one update of p; i counts the updates made
IterarRWR ==
    /\ pc = "rwr"
    /\ p' = p_new
    /\ den' = den_new
    /\ i' = i + 1
    /\ pc' = IF Converged \/ i' >= max_iter THEN "tabla" ELSE "rwr"
    /\ UNCHANGED <<archivos, nodes, edges, leidas, semillas, semillas_limpias,
                   nodos_limpios, renorm, K, candidatos, results,
                   motivo_parada, df_final, motor, tol, max_iter, topk,
                   df_scores, candidatos_guild, genes_modulo, seeds_idx>>
    /\ UNCHANGED <<otrasVars, diamond_genes>>

\* lines 243-254: the score table, the top-k candidates, the module
GuardarGuild ==
    /\ pc = "tabla"
    /\ \E o \in OrdenesPorScore :
         /\ df_scores' = o
         /\ candidatos_guild' = NoSeedHead(o, topk)
    /\ genes_modulo' = seeds_idx \o candidatos_guild'
    /\ archivos' = archivos \cup {"guild_scores.csv", "guild_genes.txt"}
    /\ pc' = "hecho"
    /\ UNCHANGED <<nodes, edges, leidas, semillas, semillas_limpias,
                   nodos_limpios, renorm, K, candidatos, results,
                   motivo_parada, i, df_final, motor, p, den, tol, max_iter,
                   topk, seeds_idx>>
    /\ UNCHANGED <<otrasVars, diamond_genes>>

\* the parameters a run is called with: the defaults but for max_iter, and
\* a coarse tolerance with a short candidate list
Parametros ==
    {[tol |-> <<1, TolInv>>, max_iter |-> m, topk |-> TopK] : m \in 0..MaxRwrIter}
    \cup {[tol |-> <<1, CoarseTolInv>>, max_iter |-> MaxRwrIter, topk |-> 1]}

InitGuild ==
    /\ \E b \in CoreGraphs, par \in Parametros :
         \E S \in SeedSets(b) :
            /\ nodes = b.nodes
            /\ edges = b.edges
            /\ leidas = S
            /\ semillas = S
            /\ tol = par.tol
            /\ max_iter = par.max_iter
            /\ topk = par.topk
    /\ semillas_limpias = {}
    /\ nodos_limpios = {}
    /\ renorm = Failed
    /\ K = 0
    /\ candidatos = {}
    /\ results = <<>>
    /\ motivo_parada = None
    /\ i = 0
    /\ df_final = <<>>
    /\ motor = "guild"
    /\ pc = "inicio"
    /\ archivos = {}
    /\ p = <<>>
    /\ den = 1
    /\ df_scores = <<>>
    /\ candidatos_guild = <<>>
    /\ genes_modulo = NoModule
    /\ seeds_idx = <<>>
    /\ diamond_genes = <<>>
    /\ previo = NoScores
    /\ corrida = 1
    /\ red_txt = NoSeguido
    /\ sem_txt = NoSeguido
    /\ intentos = <<>>
    /\ generados = {}

NextGuild == IniciarGuild \/ IterarRWR \/ GuardarGuild

SpecGuild == InitGuild /\ [][NextGuild]_vars

\* the score vector exists: the seeds were reconciled
Scored == pc \in {"rwr", "tabla", "hecho"}

\* the sum of the scores' numerators
Mass == SumOver(p, nodes)

AvanzarGuild ==
    /\ pc \in {"inicio", "rwr", "tabla"}
    /\ pc' \in {"rwr", "tabla", "hecho", "error"}
    /\ i' \in {i, i + 1}
    /\ <<pc', i'>> # <<pc, i>>

\* the engine is one sequential function: a run goes on until it is over
FairSpecGuild == SpecGuild /\ WF_<<pc, i>>(AvanzarGuild)

\* the L1 distance between the score vectors before and after the step is
\* below tol
CambioMenorQueTol ==
    FracLess(SumOver([v \in nodes |-> Abs(p'[v] * den - p[v] * den')], nodes),
             den * den', tol[1], tol[2])

\* C13: the number of updates never exceeds max_iter; an update is only made
\* while fewer than max_iter were made; the iteration ends at an update exactly
\* when that update's L1 change is below tol or it is update number max_iter;
\* the vector then written is the last one computed, no error is raised once
\* the seeds are reconciled, and every run comes to its end.
C13_RwrTerminates ==
    /\ [](i <= max_iter)
    /\ [](pc = "rwr" => i < max_iter)
    /\ [][pc = "rwr" =>
             /\ i' = i + 1
             /\ pc' \in {"rwr", "tabla"}
             /\ pc' = "tabla" <=> (CambioMenorQueTol \/ i' >= max_iter)]_vars
    /\ [][pc = "tabla" => (pc' = "hecho" /\ p' = p /\ den' = den)]_vars
    /\ [][Scored => pc' # "error"]_vars
    /\ <>(pc \in {"hecho", "error"})

\* a run that stopped on convergence before the cap, after the vector changed
C13_Witness ==
    /\ pc = "hecho"
    /\ i >= 2
    /\ i < max_iter
    /\ \E v \in nodes \ semillas : p[v] > 0

\* the added candidates, as a set
CandSet == {candidatos_guild[k] : k \in 1..Len(candidatos_guild)}

\* the nodes that are no seeds and were not taken as candidates
LeftOut == (nodes \ semillas) \ CandSet

\* C14: in the output of a run the added candidates hold no seed and no node
\* twice, they are at most topk, a non-seed node is left out only when topk
\* were taken and then scores no higher than any taken one, and the module
\* written is the reconciled seeds, each once, followed by the candidates.
C14_TopKExcludesSeeds ==
    pc = "hecho" =>
        /\ semillas = ReconcileGuild(leidas, nodes).semillas
        /\ CandSet \cap semillas = {}
        /\ CandSet \subseteq nodes
        /\ Cardinality(CandSet) = Len(candidatos_guild)
        /\ Len(candidatos_guild) <= topk
        /\ LeftOut # {} => Len(candidatos_guild) = topk
        /\ \A n \in LeftOut : \A c \in CandSet : p[n] <= p[c]
        /\ Len(genes_modulo) = Cardinality(semillas) + Len(candidatos_guild)
        /\ {genes_modulo[k] : k \in 1..Cardinality(semillas)} = semillas
        /\ SubSeq(genes_modulo, Cardinality(semillas) + 1, Len(genes_modulo))
              = candidatos_guild

\* a run with topk = 1 that took the better of two non-seed nodes with
\* different scores
C14_Witness ==
    /\ pc = "hecho"
    /\ topk = 1
    /\ Len(candidatos_guild) = 1
    /\ \E n \in LeftOut : p[n] < p[candidatos_guild[1]]

---------------------------------------------------------------------------
(* ejecutar_guild called again on the same files with the same parameters *)

\* a second call: the function starts from its arguments and the files alone,
\* every local is new; what the first call returned is kept for comparison
Repetir ==
    /\ pc = "hecho"
    /\ motor = "guild"
    /\ corrida = 1
    /\ corrida' = 2
    /\ previo' = [p |-> p, den |-> den, seeds_idx |-> seeds_idx]
    /\ pc' = "inicio"
    /\ semillas' = leidas
    /\ semillas_limpias' = {}
    /\ nodos_limpios' = {}
    /\ i' = 0
    /\ p' = <<>>
    /\ den' = 1
    /\ seeds_idx' = <<>>
    /\ df_scores' = <<>>
    /\ candidatos_guild' = <<>>
    /\ genes_modulo' = NoModule
    /\ UNCHANGED <<archivos, nodes, edges, leidas, renorm, K, candidatos,
                   results, motivo_parada, df_final, motor, tol, max_iter,
                   topk, diamond_genes, red_txt, sem_txt, intentos, generados>>

NextGuild2 == IniciarGuild \/ IterarRWR \/ GuardarGuild \/ Repetir

SpecGuild2 == InitGuild /\ [][NextGuild2]_vars

\* C12: a second run of ejecutar_guild on the same graph, seed list and
\* parameters ends with the same score for every node as the first run,
\* whatever order the seed set was enumerated in by either run.
C12_RwrDeterministic ==
    (corrida = 2 /\ pc \in {"tabla", "hecho"}) =>
        /\ DOMAIN p = DOMAIN previo.p
        /\ \A v \in nodes : p[v] * previo.den = previo.p[v] * den

\* a finished second run that enumerated the seeds in another order than the
\* first and made at least two updates that moved mass off the seeds
C12_Witness ==
    /\ corrida = 2
    /\ pc = "hecho"
    /\ seeds_idx # previo.seeds_idx
    /\ i >= 2
    /\ \E v \in nodes \ semillas : p[v] > 0

---------------------------------------------------------------------------
(* Either engine, run on its inputs *)

InitMotores == Init \/ InitGuild

NextMotores == Next \/ NextGuild

SpecMotores == InitMotores /\ [][NextMotores]_vars

\* the files the two engines write
ArchivosMotores ==
    {"diamond_results.csv", "diamond_genes.txt",
     "guild_scores.csv", "guild_genes.txt"}

\* no seed matches a node, neither by canonical form nor as a prefix
NoMatch ==
    \A g \in leidas : \A n \in nodes :
        limpiar_id(g) # limpiar_id(n) /\ ~StartsWith(n, limpiar_id(g))

\* C17: when no seed matches the graph, the first step of the run raises the
\* error, the run gets no further, and none of the engines' result files is
\* ever written; and a run that raised wrote no result file.
C17_NoMatchWritesNothing ==
    /\ [](NoMatch => (pc \in {"inicio", "error"}
                       /\ archivos \cap ArchivosMotores = {}))
    /\ [](pc = "error" => (NoMatch /\ archivos \cap ArchivosMotores = {}))
    /\ [][(NoMatch /\ pc = "inicio") => pc' = "error"]_vars

\* a run of DIAMOnD on a seed that is not in the graph, after it raised
C17_Witness ==
    /\ pc = "error"
    /\ motor = "diamond"
    /\ leidas # {}
    /\ NoMatch
    /\ archivos = {}

---------------------------------------------------------------------------
(* Python str operations on the text of a file *)

\* the characters str.strip() and str.split() take for whitespace
Blancos == {Space, Tab, NL}

\* str.split(sep) for a one-character separator, and for a set of them
RECURSIVE SplitOn(_, _)
SplitOn(t, seps) ==
    IF \E k \in 1..Len(t) : t[k] \in seps
    THEN LET first == CHOOSE k \in 1..Len(t) :
                        /\ t[k] \in seps
                        /\ \A j \in 1..(k - 1) : t[j] \notin seps
         IN  <<SubSeq(t, 1, first - 1)>>
             \o SplitOn(SubSeq(t, first + 1, Len(t)), seps)
    ELSE <<t>>

NoVacio(f) == f # <<>>

\* str.split(delimiter): with None the fields between runs of whitespace,
\* with " " the fields between single spaces, empty ones included
split(t, delimiter) ==
    IF delimiter = None THEN SelectSeq(SplitOn(t, Blancos), NoVacio)
    ELSE SplitOn(t, {Space})

\* str.strip()
RECURSIVE strip(_)
strip(t) ==
    IF t # <<>> /\ t[1] \in Blancos THEN strip(Tail(t))
    ELSE IF t # <<>> /\ t[Len(t)] \in Blancos
         THEN strip(SubSeq(t, 1, Len(t) - 1))
         ELSE t

\* str.splitlines()
splitlines(t) ==
    LET f == SplitOn(t, {NL})
    IN  IF f[Len(f)] = <<>> THEN SubSeq(f, 1, Len(f) - 1) ELSE f

\* str.replace(",", "\n")
replace(t) == [k \in 1..Len(t) |-> IF t[k] = Comma THEN NL ELSE t[k]]

\* set(lista)
set(lista) == {lista[k] : k \in 1..Len(lista)}

\* the stripped entries of a list of str that are not blank
Limpias(lineas) ==
    SelectSeq([k \in 1..Len(lineas) |-> strip(lineas[k])], NoVacio)

\* leer_genes, diamond.py lines 33-34
leer_genes(t) == Limpias(splitlines(replace(strip(t))))

\* _leer_lista, analisis_funcional.py lines 179-180
_leer_lista(t) == Limpias(splitlines(t))

---------------------------------------------------------------------------
(* Loading the edge list and the seed list, both engines *)

\* one line under nx.read_edgelist(ruta_red, delimiter=...): fewer than two
\* fields are passed over, two fields are an edge, and further fields are
\* edge data, which must be a Python dict literal: no text of the characters
\* modelled here is one, so they raise
parse_line(line, delimiter) ==
    LET f == split(line, delimiter)
    IN  IF Len(f) < 2 THEN [tipo |-> "omitida", e |-> {}]
        ELSE IF Len(f) > 2 THEN [tipo |-> "excepcion", e |-> {}]
        ELSE [tipo |-> "arista", e |-> {f[1], f[2]}]

\* nx.read_edgelist(ruta_red, delimiter=...): the graph, or an exception
\* (the file is missing, or a line raises)
read_edgelist(archivo, delimiter) ==
    LET lineas == splitlines(archivo.texto)
        leida  == [k \in 1..Len(lineas) |-> parse_line(lineas[k], delimiter)]
        E      == {leida[k].e : k \in {j \in 1..Len(lineas) :
                                        leida[j].tipo = "arista"}}
    IN  IF \/ ~archivo.existe
           \/ \E k \in 1..Len(lineas) : leida[k].tipo = "excepcion"
        THEN [raised |-> TRUE, nodes |-> {}, edges |-> {}]
        ELSE [raised |-> FALSE, nodes |-> UNION E, edges |-> E]

\* a mutant: the single space is tried first
PrimerDelimitadorEspacio == " "

\* the delimiter of the call in the try block, diamond.py line 46 and
\* analisis_funcional.py line 195
PrimerDelimitador == None

\* the delimiter of the call in the except block, lines 48 and 197
SegundoDelimitador == " "

\* what the run leaves alone while it reads its input files
cargaResto ==
    <<semillas_limpias, nodos_limpios, renorm, K, candidatos, results,
      motivo_parada, i, df_final, motor, archivos, guildVars, diamond_genes,
      previo, corrida, red_txt, sem_txt, generados>>

\* the try block: the first call of nx.read_edgelist
CargarRed ==
    /\ pc = "cargar"
    /\ LET g == read_edgelist(red_txt, PrimerDelimitador)
       IN  /\ intentos' = <<[delimiter |-> PrimerDelimitador,
                              raised |-> g.raised]>>
           /\ IF g.raised
              THEN pc' = "reintento" /\ UNCHANGED <<nodes, edges>>
              ELSE pc' = "semillas" /\ nodes' = g.nodes /\ edges' = g.edges
    /\ UNCHANGED <<leidas, semillas, cargaResto>>

\* the except block: the second call, whose exception nothing catches
ReintentarRed ==
    /\ pc = "reintento"
    /\ LET g == read_edgelist(red_txt, SegundoDelimitador)
       IN  /\ intentos' = Append(intentos, [delimiter |-> SegundoDelimitador,
                                            raised |-> g.raised])
           /\ IF g.raised
              THEN pc' = "error" /\ UNCHANGED <<nodes, edges>>
              ELSE pc' = "semillas" /\ nodes' = g.nodes /\ edges' = g.edges
    /\ UNCHANGED <<leidas, semillas, cargaResto>>

\* diamond.py line 52: semillas = set(leer_genes(ruta_semillas)); leer_genes
\* raises FileNotFoundError on a missing file
LeerSemillasDiamond ==
    /\ pc = "semillas"
    /\ motor = "diamond"
    /\ IF ~sem_txt.existe
       THEN pc' = "error" /\ UNCHANGED <<leidas, semillas>>
       ELSE /\ leidas' = set(leer_genes(sem_txt.texto))
            /\ semillas' = leidas'
            /\ pc' = "inicio"
    /\ UNCHANGED <<nodes, edges, intentos, cargaResto>>

\* analisis_funcional.py lines 199-201: semillas = set(_leer_lista(ruta_sem)),
\* ValueError when it is empty; read_text raises on a missing file
LeerSemillasGuild ==
    /\ pc = "semillas"
    /\ motor = "guild"
    /\ IF ~sem_txt.existe \/ set(_leer_lista(sem_txt.texto)) = {}
       THEN pc' = "error" /\ UNCHANGED <<leidas, semillas>>
       ELSE /\ leidas' = set(_leer_lista(sem_txt.texto))
            /\ semillas' = leidas'
            /\ pc' = "inicio"
    /\ UNCHANGED <<nodes, edges, intentos, cargaResto>>

\* lines of one to n one-letter fields, separated by a space, a tab or two
\* spaces
RECURSIVE Lineas(_)
Lineas(n) ==
    IF n <= 1 THEN {<<a>> : a \in Letters}
    ELSE Lineas(n - 1)
         \cup {l \o sep \o <<a>> :
                 l \in Lineas(n - 1),
                 sep \in {<<Space>>, <<Tab>>, <<Space, Space>>},
                 a \in Letters}

\* the edge-list files tried: one such line, with or without an end of line
\* or a second line after it, and no file at all
Redes ==
    {Archivo(l \o fin) :
        l \in Lineas(MaxCols), fin \in {<<>>, <<NL>>, <<NL, 2, Space, 1>>}}
    \cup {Ausente}

\* the seed-list files tried: every text of letters, commas, spaces and ends
\* of line up to MaxTexto characters, and no file at all
ListasSemillas ==
    {Archivo(t) : t \in UNION {[1..n -> Letters \cup {Comma, Space, NL}] :
                                  n \in 0..MaxTexto}}
    \cup {Ausente}

InitCarga ==
    /\ motor \in {"diamond", "guild"}
    /\ \/ red_txt \in Redes /\ sem_txt = Archivo(<<1>>)
       \/ red_txt = Archivo(<<1, Space, 2>>) /\ sem_txt \in ListasSemillas
    /\ pc = "cargar"
    /\ intentos = <<>>
    /\ nodes = {}
    /\ edges = {}
    /\ leidas = {}
    /\ semillas = {}
    /\ semillas_limpias = {}
    /\ nodos_limpios = {}
    /\ renorm = Failed
    /\ K = 0
    /\ candidatos = {}
    /\ results = <<>>
    /\ motivo_parada = None
    /\ i = 0
    /\ df_final = <<>>
    /\ archivos = {}
    /\ p = <<>>
    /\ den = 1
    /\ tol = <<1, TolInv>>
    /\ max_iter = 0
    /\ topk = TopK
    /\ df_scores = <<>>
    /\ candidatos_guild = <<>>
    /\ genes_modulo = NoModule
    /\ seeds_idx = <<>>
    /\ diamond_genes = <<>>
    /\ previo = NoScores
    /\ corrida = 1
    /\ generados = {}

NextCarga ==
    CargarRed \/ ReintentarRed \/ LeerSemillasDiamond \/ LeerSemillasGuild

SpecCarga == InitCarga /\ [][NextCarga]_vars

\* the attempt that decided the load
Ultimo == intentos[Len(intentos)]

\* C18 (as claimed): the first attempt to read the edge list uses the single
\* space as delimiter, a second attempt is the generic-whitespace one, and
\* that second attempt does not raise.
C18_StrictFirstNeverRaises ==
    /\ Len(intentos) >= 1 => intentos[1].delimiter = " "
    /\ Len(intentos) >= 2 =>
          intentos[2].delimiter = None /\ ~intentos[2].raised

\* C18 (amended): the first attempt is the generic-whitespace parse
\* (delimiter None); a second attempt is made only when the first raised and
\* uses the single space; an exception of the second attempt ends the run
\* with an error and without a graph; otherwise the graph is what the
\* deciding attempt read.
C18_PermissiveFirstThenStrict ==
    /\ Len(intentos) <= 2
    /\ pc = "cargar" <=> intentos = <<>>
    /\ pc = "reintento" <=> (Len(intentos) = 1 /\ intentos[1].raised)
    /\ Len(intentos) >= 1 => intentos[1].delimiter = None
    /\ Len(intentos) = 2 =>
          intentos[1].raised /\ intentos[2].delimiter = " "
    /\ (Len(intentos) = 2 /\ intentos[2].raised) =>
          pc = "error" /\ nodes = {} /\ edges = {} /\ leidas = {}
    /\ (intentos # <<>> /\ ~Ultimo.raised) =>
          /\ pc \in {"semillas", "inicio", "error"}
          /\ ~read_edgelist(red_txt, Ultimo.delimiter).raised
          /\ nodes = read_edgelist(red_txt, Ultimo.delimiter).nodes
          /\ edges = read_edgelist(red_txt, Ultimo.delimiter).edges

\* an edge list that exists and on which both attempts raised
C18_Witness ==
    /\ red_txt.existe
    /\ Len(intentos) = 2
    /\ intentos[2].raised
    /\ pc = "error"

\* the entries of a seed list as claimed: what stands between ends of line
\* and commas, stripped, blank entries left out
EntradasDe(t) == set(Limpias(SplitOn(t, {Comma, NL})))

\* C19 (as claimed): whichever engine reads the seed-list file, the seeds it
\* obtains are the entries between ends of line and commas, blank ones left
\* out; so both engines obtain the same seeds from the same file.
C19_SeedFileReadAlike ==
    (pc = "inicio" /\ sem_txt.existe) => leidas = EntradasDe(sem_txt.texto)

---------------------------------------------------------------------------
(* main() of ejecutar_pipeline.py: which files exist and which this run wrote *)

\* DEGS_RESULT_FILENAME, line 45
DEGs == "DEGs.tsv"

\* the parameters of the functions main() calls: those without a default,
\* and all of them
Firma(f) ==
    IF f = "descargar_red_STRING"
    THEN [requeridos |-> {"genes_file", "species_id", "output_file"},
          aceptados  |-> {"genes_file", "species_id", "output_file",
                          "score_threshold"}]
    ELSE [requeridos |-> {"input_genes", "output_dir"},
          aceptados  |-> {"input_genes", "output_dir"}]

\* a Python call with keyword arguments binds (otherwise it raises TypeError
\* before the body runs)
LlamadaValida(f, pasados) ==
    Firma(f).requeridos \subseteq pasados /\ pasados \subseteq Firma(f).aceptados

\* what the pipeline leaves alone: the engines' own state
pipeResto ==
    <<nodes, edges, leidas, semillas, semillas_limpias, nodos_limpios, renorm,
      K, candidatos, results, motivo_parada, i, df_final, motor, guildVars,
      diamond_genes, previo, corrida, red_txt, sem_txt, intentos>>

\* the run writes the files F
Escribe(F) == archivos' = archivos \cup F /\ generados' = generados \cup F

\* lines 57-65: the input file must exist
VerificarEntrada ==
    /\ pc = "main"
    /\ pc' = IF DEGs \in archivos THEN "paso1" ELSE "error"
    /\ UNCHANGED <<archivos, generados, pipeResto>>

\* lines 67-74: procesar_DEGs raises on a file without the required columns,
\* otherwise it writes the three gene lists
Paso1 ==
    /\ pc = "paso1"
    /\ \E columnas_ok \in BOOLEAN :
         IF columnas_ok
         THEN /\ Escribe({"genes_up.txt", "genes_down.txt", "genes_semilla.txt"})
              /\ pc' = "paso2"
         ELSE /\ pc' = "error"
              /\ UNCHANGED <<archivos, generados>>
    /\ UNCHANGED pipeResto

\* lines 76-80: convertir_a_string_ids writes genes_semilla_string.txt
Paso2 ==
    /\ pc = "paso2"
    /\ Escribe({"genes_semilla_string.txt"})
    /\ pc' = "paso3"
    /\ UNCHANGED pipeResto

\* lines 82-95: an existing network is reused; otherwise
\* descargar_red_STRING(genes_file=..., output_file=...) is called, which
\* (descargar_red_string.py lines 43-80) writes genes_semilla_stringid.txt
\* and then, unless the request fails, the network
Paso3 ==
    /\ pc = "paso3"
    /\ IF "network_arabidopsis.txt" \in archivos
       THEN pc' = "paso4" /\ UNCHANGED <<archivos, generados>>
       ELSE IF LlamadaValida("descargar_red_STRING",
                             {"genes_file", "output_file"})
            THEN \E respuesta_ok \in BOOLEAN :
                    IF respuesta_ok
                    THEN /\ Escribe({"genes_semilla_stringid.txt",
                                      "network_arabidopsis.txt"})
                         /\ pc' = "paso4"
                    ELSE /\ Escribe({"genes_semilla_stringid.txt"})
                         /\ pc' = "error"
            ELSE pc' = "error" /\ UNCHANGED <<archivos, generados>>
    /\ UNCHANGED pipeResto

\* lines 97-105: ejecutar_ora_STRING(input_genes=..., output_dir=...) on
\* genes_semilla_stringid.txt: leer_genes raises when the file is missing,
\* the request can raise, an empty answer writes nothing
Paso4 ==
    /\ pc = "paso4"
    /\ IF /\ LlamadaValida("ejecutar_ora_STRING", {"input_genes", "output_dir"})
          /\ "genes_semilla_stringid.txt" \in archivos
       THEN \E respuesta \in {"error", "vacia", "terminos"} :
               /\ pc' = IF respuesta = "error" THEN "error" ELSE "paso5"
               /\ IF respuesta = "terminos"
                  THEN Escribe({"ORA_semillas/enrichment_results.csv"})
                  ELSE UNCHANGED <<archivos, generados>>
       ELSE pc' = "error" /\ UNCHANGED <<archivos, generados>>
    /\ UNCHANGED pipeResto

\* lines 107-115: ejecutar_diamond on the data directory raises (a file is
\* missing or unreadable, no seed matches) or writes its two files
Paso5 ==
    /\ pc = "paso5"
    /\ \E raised \in BOOLEAN :
         IF \/ raised
            \/ "network_arabidopsis.txt" \notin archivos
            \/ "genes_semilla_stringid.txt" \notin archivos
         THEN pc' = "error" /\ UNCHANGED <<archivos, generados>>
         ELSE /\ Escribe({"diamond_results.csv", "diamond_genes.txt"})
              /\ pc' = "paso6"
    /\ UNCHANGED pipeResto

\* lines 117-125: ejecutar_ora_STRING(input_genes=..., output_dir=...,
\* species_id=...); lines 127-150 come after its return
Paso6 ==
    /\ pc = "paso6"
    /\ IF LlamadaValida("ejecutar_ora_STRING",
                        {"input_genes", "output_dir", "species_id"})
       THEN \E respuesta \in {"error", "vacia", "terminos"} :
               /\ pc' = IF respuesta = "error" THEN "error" ELSE "verificar"
               /\ IF respuesta = "terminos"
                  THEN Escribe({"ORA_diamond/enrichment_results.csv"})
                  ELSE UNCHANGED <<archivos, generados>>
       ELSE pc' = "error" /\ UNCHANGED <<archivos, generados>>
    /\ UNCHANGED pipeResto

\* the files that can be there before main() runs: the input, and what an
\* earlier run or the user left in the data and result directories
Previos ==
    SUBSET {DEGs, "network_arabidopsis.txt", "genes_semilla_stringid.txt",
            "genes_semilla.txt", "genes_semilla_string.txt",
            "diamond_genes.txt", "ORA_semillas/enrichment_results.csv"}

InitPipeline ==
    /\ archivos \in Previos
    /\ generados = {}
    /\ pc = "main"
    /\ motor = "diamond"
    /\ nodes = {}
    /\ edges = {}
    /\ leidas = {}
    /\ semillas = {}
    /\ semillas_limpias = {}
    /\ nodos_limpios = {}
    /\ renorm = Failed
    /\ K = 0
    /\ candidatos = {}
    /\ results = <<>>
    /\ motivo_parada = None
    /\ i = 0
    /\ df_final = <<>>
    /\ p = <<>>
    /\ den = 1
    /\ tol = <<1, TolInv>>
    /\ max_iter = 0
    /\ topk = TopK
    /\ df_scores = <<>>
    /\ candidatos_guild = <<>>
    /\ genes_modulo = NoModule
    /\ seeds_idx = <<>>
    /\ diamond_genes = <<>>
    /\ previo = NoScores
    /\ corrida = 1
    /\ red_txt = NoSeguido
    /\ sem_txt = NoSeguido
    /\ intentos = <<>>

NextPipeline ==
    VerificarEntrada \/ Paso1 \/ Paso2 \/ Paso3 \/ Paso4 \/ Paso5 \/ Paso6

SpecPipeline == InitPipeline /\ [][NextPipeline]_vars

\* C20 (as claimed): whenever main() is at step 4 or at step 5, this run has
\* written data/genes_semilla_stringid.txt.
C20_StringIdsGenerated ==
    pc \in {"paso4", "paso5"} => "genes_semilla_stringid.txt" \in generados

===========================================================================
